---- MODULE Spec2Model ----
(***************************************************************************)
(* netlib.http.message.Message: the two-layer transcoding cache of an HTTP *)
(* message body (raw bytes <-> content-encoding decoded bytes <-> text),   *)
(* with the Content-Length / Content-Encoding / Content-Type headers it    *)
(* maintains.  Python 3 semantics (six.PY2 is false).                      *)
(***************************************************************************)
EXTENDS Integers, Sequences, FiniteSets, TLC

VARIABLES raw_content, headers, _content_cache, _text_cache, last

vars == <<raw_content, headers, _content_cache, _text_cache, last>>

(***************************************************************************)
(* Bounds of the model.                                                    *)
(***************************************************************************)
\* longest byte string or text handed to a setter or found in a fresh message
MaxLen == 1
\* number of calls made on one message
MaxCalls == 3

(***************************************************************************)
(* Python values.  Every value carries its type, so that == between a      *)
(* bytes object, a str and None is false as it is in Python 3.             *)
(*   bytes : sequence of byte values 0..255                                *)
(*   text  : str seen as a sequence of code points                         *)
(*   str   : str seen as an opaque token (header values, codec names)      *)
(***************************************************************************)
None == <<"none">>
Bytes(s) == <<"bytes", s>>
Text(s) == <<"text", s>>
Tok(s) == <<"str", s>>
PyInt(n) == <<"int", n>>
Ty(x) == x[1]
Val(x) == x[2]

\* truthiness of a header token: None and "" are falsy
Truthy(x) == x # None /\ x # Tok("")
\* truthiness of bytes / text: None and the empty sequence are falsy
NonEmpty(x) == x # None /\ Val(x) # <<>>

\* str(n) for n >= 0: the decimal digits, as code points
RECURSIVE str(_)
str(n) == IF n < 10 THEN <<48 + n>> ELSE str(n \div 10) \o <<48 + (n % 10)>>

(***************************************************************************)
(* Codec Port: netlib.encoding.decode / encode.  Both wrap every failure   *)
(* in ValueError; the result is [ok, v].                                   *)
(***************************************************************************)
Ok(x) == [ok |-> TRUE, v |-> x]
Err == [ok |-> FALSE, v |-> None]

\* strict UTF-8, or UTF-8 with the surrogateescape error handler; code
\* points up to U+FFFF (one to three bytes)
RECURSIVE utf8_decode(_, _)
utf8_decode(s, surrogateescape) ==
    IF s = <<>> THEN Ok(<<>>)
    ELSE LET b == Head(s)
             n == IF b < 128 THEN 1
                  ELSE IF b >= 194 /\ b < 224 THEN 2
                  ELSE IF b >= 224 /\ b < 240 THEN 3
                  ELSE 0
             cont == n > 0 /\ Len(s) >= n /\ \A i \in 2..n : s[i] \in 128..191
             cp == IF n = 1 THEN b
                   ELSE IF n = 2 THEN (b - 192) * 64 + (s[2] - 128)
                   ELSE (b - 224) * 4096 + (s[2] - 128) * 64 + (s[3] - 128)
             wellformed == cont /\ (n = 3 => (cp >= 2048 /\ cp \notin 55296..57343))
         IN IF wellformed
            THEN LET r == utf8_decode(SubSeq(s, n + 1, Len(s)), surrogateescape)
                 IN IF r.ok THEN Ok(<<cp>> \o r.v) ELSE Err
            ELSE IF surrogateescape
            THEN LET r == utf8_decode(Tail(s), surrogateescape)
                 IN IF r.ok THEN Ok(<<56320 + b>> \o r.v) ELSE Err
            ELSE Err

RECURSIVE utf8_encode(_, _)
utf8_encode(t, surrogateescape) ==
    IF t = <<>> THEN Ok(<<>>)
    ELSE LET cp == Head(t)
             one == IF cp < 128 THEN Ok(<<cp>>)
                    ELSE IF cp < 2048 THEN Ok(<<192 + (cp \div 64), 128 + (cp % 64)>>)
                    ELSE IF cp \in 55296..57343
                    THEN IF surrogateescape /\ cp \in 56448..56575
                         THEN Ok(<<cp - 56320>>) ELSE Err
                    ELSE Ok(<<224 + (cp \div 4096), 128 + ((cp \div 64) % 64),
                              128 + (cp % 64)>>)
             r == utf8_encode(Tail(t), surrogateescape)
         IN IF one.ok /\ r.ok THEN Ok(one.v \o r.v) ELSE Err

\* bytes.decode("utf8", "surrogateescape") and str.encode("utf8", "surrogateescape")
decode_utf8_surrogateescape(b) == Text(utf8_decode(Val(b), TRUE).v)
encode_utf8_surrogateescape(t) ==
    LET r == utf8_encode(Val(t), TRUE) IN IF r.ok THEN Ok(Bytes(r.v)) ELSE Err

\* first byte of a gzip member (0x1f) and of a zlib stream (0x78)
Magic(e) == IF e = "gzip" THEN 31 ELSE 120

encoding_decode(obj, e) ==
    IF e = "identity" THEN Ok(obj)
    ELSE IF Ty(obj) # "bytes" THEN Err
    ELSE IF e \in {"gzip", "deflate"}
    THEN IF Val(obj) # <<>> /\ Head(Val(obj)) = Magic(e) THEN Ok(Bytes(Tail(Val(obj)))) ELSE Err
    ELSE IF e = "latin-1" THEN Ok(Text(Val(obj)))
    ELSE IF e = "ascii"
    THEN IF \A i \in 1..Len(Val(obj)) : Val(obj)[i] < 128 THEN Ok(Text(Val(obj))) ELSE Err
    ELSE IF e \in {"utf8", "utf-8"}
    THEN LET r == utf8_decode(Val(obj), FALSE) IN IF r.ok THEN Ok(Text(r.v)) ELSE Err
    ELSE Err

encoding_encode(obj, e) ==
    IF e = "identity" THEN Ok(obj)
    ELSE IF e \in {"gzip", "deflate"}
    THEN IF Ty(obj) = "bytes" THEN Ok(Bytes(<<Magic(e)>> \o Val(obj))) ELSE Err
    ELSE IF Ty(obj) # "text" THEN Err
    ELSE IF e = "latin-1"
    THEN IF \A i \in 1..Len(Val(obj)) : Val(obj)[i] < 256 THEN Ok(Bytes(Val(obj))) ELSE Err
    ELSE IF e = "ascii"
    THEN IF \A i \in 1..Len(Val(obj)) : Val(obj)[i] < 128 THEN Ok(Bytes(Val(obj))) ELSE Err
    ELSE IF e \in {"utf8", "utf-8"}
    THEN LET r == utf8_encode(Val(obj), FALSE) IN IF r.ok THEN Ok(Bytes(r.v)) ELSE Err
    ELSE Err

(***************************************************************************)
(* Content-Type Port: netlib.http.headers.parse_content_type and           *)
(* assemble_content_type, on the content-type values of the model: a media *)
(* type alone, a media type with a charset parameter, or a value without a *)
(* "/" (which does not parse).                                             *)
(***************************************************************************)
MediaTypes == {<<"text", "plain">>, <<"application", "json">>}
CharsetParams == {"ascii", "bogus", "utf-8"}

assemble_content_type(type, subtype, charset) ==
    type \o "/" \o subtype \o "; charset=" \o charset

\* [ok, type, subtype, charset]; ok = FALSE is Python's None, charset = None
\* is a parameter dict without "charset"
parse_content_type(c) ==
    IF \E mt \in MediaTypes : c = mt[1] \o "/" \o mt[2]
    THEN LET mt == CHOOSE mt \in MediaTypes : c = mt[1] \o "/" \o mt[2]
         IN [ok |-> TRUE, type |-> mt[1], subtype |-> mt[2], charset |-> None]
    ELSE IF \E mt \in MediaTypes, cs \in CharsetParams :
                c = assemble_content_type(mt[1], mt[2], cs)
    THEN LET p == CHOOSE p \in MediaTypes \X CharsetParams :
                      c = assemble_content_type(p[1][1], p[1][2], p[2])
         IN [ok |-> TRUE, type |-> p[1][1], subtype |-> p[1][2], charset |-> Tok(p[2])]
    ELSE [ok |-> FALSE, type |-> "", subtype |-> "", charset |-> None]

\* "json" in c, for the content-type values of the model
contains_json(c) == LET ct == parse_content_type(c) IN ct.ok /\ ct.subtype = "json"

(***************************************************************************)
(* CachedDecode and the message.  A message m is the record                *)
(*   [raw, hdr, cc, tc] = raw_content, headers, _content_cache,            *)
(*   _text_cache; hdr holds the three headers the class reads or writes:   *)
(*   ce = Content-Encoding, cl = Content-Length, ct = Content-Type, each   *)
(*   None when the header is absent.                                       *)
(* The strict field of the empty sentinel is None in the source; it is     *)
(* only ever read as a truth value, so the model keeps FALSE.              *)
(***************************************************************************)
CachedDecode(object, encoding, strict, decoded) ==
    [encoded |-> object, encoding |-> encoding, strict |-> strict, decoded |-> decoded]

no_cached_decode == CachedDecode(None, None, FALSE, None)

\* self.headers.get("content-type", "")
content_type_or_empty(m) == IF m.hdr.ct = None THEN "" ELSE Val(m.hdr.ct)

(***************************************************************************)
(* The outcome of a method: the message afterwards, the exception raised   *)
(* ("" for none), the value returned, the number of calls made to          *)
(* encoding.decode and encoding.encode, and which kind of cache entry the  *)
(* returned value was served from: "computed" (none), "strict", "lenient". *)
(***************************************************************************)
Outcome(m, exc, ret, ndecode, nencode, served) ==
    [m |-> m, exc |-> exc, ret |-> ret, ndecode |-> ndecode, nencode |-> nencode,
     served |-> served]

Return(m, ret, ndecode, nencode, served) == Outcome(m, "", ret, ndecode, nencode, served)
Raise(m, exc, ndecode, nencode) == Outcome(m, exc, None, ndecode, nencode, "computed")

Served(cache) == IF cache.strict THEN "strict" ELSE "lenient"

(***************************************************************************)
(* Message.get_content                                                     *)
(***************************************************************************)
\* faulty variants of the validity test of lines 135-139
content_cached_ignoring_body(m, ce, strict) ==
    /\ (m.cc.strict \/ ~strict)
    /\ m.cc.encoding = ce

content_cached_ignoring_strict(m, ce, strict) ==
    /\ m.cc.encoded = m.raw
    /\ m.cc.encoding = ce

content_cached_on_decoded(m, ce, strict) ==
    /\ m.cc.decoded = m.raw
    /\ (m.cc.strict \/ ~strict)
    /\ m.cc.encoding = ce

\* faulty variant of the validity test of lines 135-139: the encoding the
\* entry was computed under is not compared
content_cached_ignoring_encoding(m, ce, strict) ==
    /\ m.cc.encoded = m.raw
    /\ (m.cc.strict \/ ~strict)

content_cached(m, ce, strict) ==
    /\ m.cc.encoded = m.raw
    /\ (m.cc.strict \/ ~strict)
    /\ m.cc.encoding = ce

\* faulty variant of get_content: the lenient branch also removes the
\* Content-Encoding header the codec rejected
get_content_removing_header(m, strict) ==
    IF m.raw = None THEN Return(m, None, 0, 0, "computed")
    ELSE LET ce == m.hdr.ce
         IN IF content_cached(m, ce, strict)
            THEN Return(m, m.cc.decoded, 0, 0, Served(m.cc))
            ELSE IF Truthy(ce)
            THEN LET d == encoding_decode(m.raw, Val(ce))
                 IN IF d.ok
                    THEN Return([m EXCEPT !.cc = CachedDecode(m.raw, ce, TRUE, d.v)],
                                d.v, 1, 0, "computed")
                    ELSE IF strict THEN Raise(m, "ValueError", 1, 0)
                    ELSE Return([m EXCEPT !.hdr.ce = None,
                                          !.cc = CachedDecode(m.raw, ce, FALSE, m.raw)],
                                m.raw, 1, 0, "computed")
            ELSE Return([m EXCEPT !.cc = CachedDecode(m.raw, ce, TRUE, m.raw)],
                        m.raw, 0, 0, "computed")

get_content(m, strict) ==
    IF m.raw = None THEN Return(m, None, 0, 0, "computed")
    ELSE LET ce == m.hdr.ce
         IN IF content_cached(m, ce, strict)
            THEN Return(m, m.cc.decoded, 0, 0, Served(m.cc))
            ELSE IF Truthy(ce)
            THEN LET d == encoding_decode(m.raw, Val(ce))
                 IN IF d.ok
                    THEN Return([m EXCEPT !.cc = CachedDecode(m.raw, ce, TRUE, d.v)],
                                d.v, 1, 0, "computed")
                    ELSE IF strict
                    THEN Raise(m, "ValueError", 1, 0)
                    ELSE Return([m EXCEPT !.cc = CachedDecode(m.raw, ce, FALSE, m.raw)],
                                m.raw, 1, 0, "computed")
            ELSE Return([m EXCEPT !.cc = CachedDecode(m.raw, ce, TRUE, m.raw)],
                        m.raw, 0, 0, "computed")

(***************************************************************************)
(* Message.set_content                                                     *)
(***************************************************************************)
\* faulty variant of the reuse test of lines 166-170: the encoding is not compared
set_content_cached_any_encoding(m, ce, value) ==
    /\ m.cc.decoded = value
    /\ m.cc.strict

\* faulty variant of the reuse test of lines 166-170: the strict flag is not tested
set_content_cached_ignoring_strict(m, ce, value) ==
    /\ m.cc.decoded = value
    /\ m.cc.encoding = ce

set_content_cached(m, ce, value) ==
    /\ m.cc.decoded = value
    /\ m.cc.encoding = ce
    /\ m.cc.strict

\* str(len(raw)), the value of a content-length header
content_length(raw) == Text(str(Len(Val(raw))))

\* faulty variant of line 182: the length of the value instead of the raw body
update_content_length_of_value(m, value) == [m EXCEPT !.hdr.cl = content_length(value)]

\* line 182; value is the argument of set_content
update_content_length(m, value) == [m EXCEPT !.hdr.cl = content_length(m.raw)]

\* faulty variant of set_content: clearing the body also drops Content-Length
set_content_clearing_length(m, value) ==
    IF value = None
    THEN Return([m EXCEPT !.raw = None, !.hdr.cl = None], None, 0, 0, "computed")
    ELSE IF Ty(value) # "bytes" THEN Raise(m, "TypeError", 0, 0)
    ELSE LET ce == m.hdr.ce
             cached == set_content_cached(m, ce, value)
             e == encoding_encode(value, IF Truthy(ce) THEN Val(ce) ELSE "identity")
             m1 == IF cached THEN m
                   ELSE IF e.ok
                   THEN [m EXCEPT !.cc = CachedDecode(e.v, ce, TRUE, value)]
                   ELSE [m EXCEPT !.hdr.ce = None,
                                  !.cc = CachedDecode(value, None, TRUE, value)]
             m2 == [m1 EXCEPT !.raw = m1.cc.encoded]
         IN Return(update_content_length(m2, value), None,
                   0, IF cached THEN 0 ELSE 1, "computed")

\* faulty variant of set_content: the isinstance test of lines 159-164 left out
set_content_untyped(m, value) ==
    IF value = None THEN Return([m EXCEPT !.raw = None], None, 0, 0, "computed")
    ELSE LET ce == m.hdr.ce
             cached == set_content_cached(m, ce, value)
             e == encoding_encode(value, IF Truthy(ce) THEN Val(ce) ELSE "identity")
             m1 == IF cached THEN m
                   ELSE IF e.ok
                   THEN [m EXCEPT !.cc = CachedDecode(e.v, ce, TRUE, value)]
                   ELSE [m EXCEPT !.hdr.ce = None,
                                  !.cc = CachedDecode(value, None, TRUE, value)]
             m2 == [m1 EXCEPT !.raw = m1.cc.encoded]
         IN Return(update_content_length(m2, value), None,
                   0, IF cached THEN 0 ELSE 1, "computed")

set_content(m, value) ==
    IF value = None THEN Return([m EXCEPT !.raw = None], None, 0, 0, "computed")
    ELSE IF Ty(value) # "bytes" THEN Raise(m, "TypeError", 0, 0)
    ELSE LET ce == m.hdr.ce
             cached == set_content_cached(m, ce, value)
             e == encoding_encode(value, IF Truthy(ce) THEN Val(ce) ELSE "identity")
             m1 == IF cached THEN m
                   ELSE IF e.ok
                   THEN [m EXCEPT !.cc = CachedDecode(e.v, ce, TRUE, value)]
                   ELSE [m EXCEPT !.hdr.ce = None,
                                  !.cc = CachedDecode(value, None, TRUE, value)]
             m2 == [m1 EXCEPT !.raw = m1.cc.encoded]
         IN Return(update_content_length(m2, value), None,
                   0, IF cached THEN 0 ELSE 1, "computed")

(***************************************************************************)
(* Message._get_content_type_charset and Message._guess_encoding           *)
(***************************************************************************)
_get_content_type_charset(m) ==
    LET ct == parse_content_type(content_type_or_empty(m))
    IN IF ct.ok THEN ct.charset ELSE None

_guess_encoding(m) ==
    LET enc == _get_content_type_charset(m)
    IN IF Truthy(enc) THEN enc
       ELSE IF contains_json(content_type_or_empty(m)) THEN Tok("utf8")
       ELSE Tok("latin-1")

(***************************************************************************)
(* Message.get_text                                                        *)
(***************************************************************************)
text_cached(m, content, enc, strict) ==
    /\ m.tc.encoded = content
    /\ (m.tc.strict \/ ~strict)
    /\ m.tc.encoding = enc

\* the lenient fallback of line 266: self.content is get_content(strict=True)
get_text_fallback_content(m) == get_content(m, TRUE)

Worst(a, b) == IF "lenient" \in {a, b} THEN "lenient"
               ELSE IF "strict" \in {a, b} THEN "strict" ELSE "computed"

get_text(m, strict) ==
    IF m.raw = None THEN Return(m, None, 0, 0, "computed")
    ELSE LET enc == _guess_encoding(m)
             r1 == get_content(m, strict)
             content == r1.ret
             m1 == r1.m
         IN IF r1.exc # "" THEN r1
            ELSE IF text_cached(m1, content, enc, strict)
            THEN Return(m1, m1.tc.decoded, r1.ndecode, 0, Worst(r1.served, Served(m1.tc)))
            ELSE LET is_strict == m1.cc.strict
                     d == encoding_decode(content, Val(enc))
                     nd == r1.ndecode + 1
                 IN IF d.ok
                    THEN Return([m1 EXCEPT !.tc = CachedDecode(content, enc, is_strict, d.v)],
                                d.v, nd, 0, r1.served)
                    ELSE IF strict THEN Raise(m1, "ValueError", nd, 0)
                    ELSE LET r2 == get_text_fallback_content(m1)
                             decoded == decode_utf8_surrogateescape(r2.ret)
                         IN IF r2.exc # ""
                            THEN Raise(r2.m, r2.exc, nd + r2.ndecode, 0)
                            ELSE Return([r2.m EXCEPT
                                             !.tc = CachedDecode(content, enc, FALSE, decoded)],
                                        decoded, nd + r2.ndecode, 0, r1.served)

(***************************************************************************)
(* Message.set_text                                                        *)
(***************************************************************************)
set_text_cached(m, enc, text) ==
    /\ m.tc.decoded = text
    /\ m.tc.encoding = enc
    /\ m.tc.strict

\* lines 286-288: the content-type with its charset parameter set to utf-8
utf8_content_type(m) ==
    LET ct == parse_content_type(content_type_or_empty(m))
    IN IF ct.ok THEN Tok(assemble_content_type(ct.type, ct.subtype, "utf-8"))
       ELSE Tok(assemble_content_type("text", "plain", "utf-8"))

set_text(m, text) ==
    IF text = None THEN set_content(m, None)
    ELSE LET enc == _guess_encoding(m)
             cached == set_text_cached(m, enc, text)
             e == encoding_encode(text, Val(enc))
             u == encode_utf8_surrogateescape(text)
             mh == [m EXCEPT !.hdr.ct = utf8_content_type(m)]
         IN IF cached THEN set_content(m, m.tc.encoded)
            ELSE IF e.ok
            THEN LET r == set_content([m EXCEPT !.tc = CachedDecode(e.v, enc, TRUE, text)], e.v)
                 IN [r EXCEPT !.nencode = @ + 1]
            ELSE IF ~u.ok THEN Raise(mh, "ValueError", 0, 1)
            ELSE LET r == set_content(
                              [mh EXCEPT !.tc = CachedDecode(u.v, Tok("utf8"), TRUE, text)], u.v)
                 IN [r EXCEPT !.nencode = @ + 1]

(***************************************************************************)
(* Message.decode and Message.encode                                       *)
(***************************************************************************)
\* faulty variant of decode: line 306 left out
decode_keeping_header(m, strict) ==
    LET r == get_content(m, strict)
    IN IF r.exc # "" THEN r
       ELSE Return([r.m EXCEPT !.raw = r.ret], None, r.ndecode, 0, r.served)

\* faulty variant of decode: lines 305 and 306 in the other order, the header
\* is gone when the body is read
decode_popping_first(m, strict) ==
    LET r == get_content([m EXCEPT !.hdr.ce = None], strict)
    IN IF r.exc # "" THEN r
       ELSE Return([r.m EXCEPT !.raw = r.ret], None, r.ndecode, 0, r.served)

decode(m, strict) ==
    LET r == get_content(m, strict)
    IN IF r.exc # "" THEN r
       ELSE Return([r.m EXCEPT !.raw = r.ret, !.hdr.ce = None], None,
                   r.ndecode, 0, r.served)

\* variant of encode that decodes the body beforehand (self.content = self.content
\* after reading it under the old header)
encode_decoding_first(m, e) ==
    LET c == get_content(m, TRUE)
        r == set_content([c.m EXCEPT !.hdr.ce = Tok(e)], c.ret)
    IN IF c.exc # "" THEN c
       ELSE IF r.m.hdr.ce = None THEN Raise(r.m, "ValueError", c.ndecode, r.nencode)
       ELSE r

encode(m, e) ==
    LET r == set_content([m EXCEPT !.hdr.ce = Tok(e)], m.raw)
    IN IF r.m.hdr.ce = None THEN Raise(r.m, "ValueError", 0, r.nencode)
       ELSE r

(***************************************************************************)
(* Message.replace, for a literal, non-empty bytes pattern.                *)
(* re.subn: leftmost non-overlapping matches, [s, n] = new string, count.  *)
(***************************************************************************)
IsPrefix(p, s) == Len(p) <= Len(s) /\ SubSeq(s, 1, Len(p)) = p

RECURSIVE subn(_, _, _)
subn(pattern, repl, s) ==
    IF s = <<>> THEN [s |-> <<>>, n |-> 0]
    ELSE IF IsPrefix(pattern, s)
    THEN LET r == subn(pattern, repl, SubSeq(s, Len(pattern) + 1, Len(s)))
         IN [s |-> repl \o r.s, n |-> r.n + 1]
    ELSE LET r == subn(pattern, repl, Tail(s))
         IN [s |-> <<Head(s)>> \o r.s, n |-> r.n]

\* Header Port: Headers.replace.  The patterns of the model match no header
\* name and no content-encoding / content-type value, so only the
\* content-length value can change.
headers_replace(hdr, pattern, repl) ==
    IF hdr.cl = None THEN [hdr |-> hdr, n |-> 0]
    ELSE LET r == subn(pattern, repl, Val(hdr.cl))
         IN [hdr |-> [hdr EXCEPT !.cl = Text(r.s)], n |-> r.n]

\* faulty variant of replace: line 340 assigns the header count instead of
\* adding it
replace_assigning_header_count(m, pattern, repl) ==
    LET r1 == get_content(m, TRUE)
    IN IF r1.exc # "" THEN r1
       ELSE IF NonEmpty(r1.ret)
       THEN LET r2 == get_content(r1.m, TRUE)
                b == subn(pattern, repl, Val(r2.ret))
                r3 == set_content(r2.m, Bytes(b.s))
                h == headers_replace(r3.m.hdr, pattern, repl)
            IN Return([r3.m EXCEPT !.hdr = h.hdr], PyInt(h.n),
                      r1.ndecode + r2.ndecode, r3.nencode, "computed")
       ELSE LET h == headers_replace(r1.m.hdr, pattern, repl)
            IN Return([r1.m EXCEPT !.hdr = h.hdr], PyInt(h.n), r1.ndecode, 0, "computed")

replace(m, pattern, repl) ==
    LET r1 == get_content(m, TRUE)
    IN IF r1.exc # "" THEN r1
       ELSE IF NonEmpty(r1.ret)
       THEN LET r2 == get_content(r1.m, TRUE)
                b == subn(pattern, repl, Val(r2.ret))
                r3 == set_content(r2.m, Bytes(b.s))
                h == headers_replace(r3.m.hdr, pattern, repl)
            IN Return([r3.m EXCEPT !.hdr = h.hdr], PyInt(b.n + h.n),
                      r1.ndecode + r2.ndecode, r3.nencode, "computed")
       ELSE LET h == headers_replace(r1.m.hdr, pattern, repl)
            IN Return([r1.m EXCEPT !.hdr = h.hdr], PyInt(h.n), r1.ndecode, 0, "computed")

(***************************************************************************)
(* The inputs of the model.                                                *)
(***************************************************************************)
RECURSIVE SeqsUpTo(_, _)
SeqsUpTo(S, n) ==
    IF n = 0 THEN {<<>>}
    ELSE LET shorter == SeqsUpTo(S, n - 1)
         IN shorter \cup {Append(q, x) : q \in {q \in shorter : Len(q) = n - 1}, x \in S}

\* "1" and the first byte of a gzip member
BodyBytes == {49, 31}
\* "1" and e-acute (latin-1 byte 233, two bytes in UTF-8, not ASCII)
CodePoints == {49, 233}

BytesValues == {Bytes(q) : q \in SeqsUpTo(BodyBytes, MaxLen)}
TextValues == {Text(q) : q \in SeqsUpTo(CodePoints, MaxLen)}

\* content-encoding header values: one the codec knows, one it rejects
ContentEncodings == {"gzip", "bogus"}
\* encode(e): the schemes asked for
Schemes == {"gzip", "identity", "bogus"}
\* content-type values: see parse_content_type
ContentTypes == {"application/json", "text/plain; charset=ascii",
                 "text/plain; charset=bogus"}

\* replace(): literal patterns and replacements
Patterns == {<<49>>}
Replacements == {<<>>, <<50>>}

Optional(S) == {None} \cup S

(***************************************************************************)
(* State.  last records the call that produced the current state: how many *)
(* calls were made on the message so far (n), the call before it (prev =   *)
(* its op, strict and exc), the Content-Encoding header it found (ce0),    *)
(* its name, arguments and outcome.                                        *)
(***************************************************************************)
Msg == [raw |-> raw_content, hdr |-> headers, cc |-> _content_cache, tc |-> _text_cache]

Call(n, prev, ce0, op, strict, arg, r) ==
    [n |-> n, prev |-> prev, ce0 |-> ce0,
     op |-> op, strict |-> strict, arg |-> arg, exc |-> r.exc, ret |-> r.ret,
     ndecode |-> r.ndecode, nencode |-> r.nencode, served |-> r.served]

Apply(op, strict, arg, r) ==
    /\ last.n < MaxCalls
    /\ raw_content' = r.m.raw
    /\ headers' = r.m.hdr
    /\ _content_cache' = r.m.cc
    /\ _text_cache' = r.m.tc
    /\ last' = Call(last.n + 1, <<last.op, last.strict, last.exc>>, headers.ce,
                     op, strict, arg, r)

\* A message as the parser leaves it: any body, any content-encoding and
\* content-type, the content-length of the body when there is one, and empty
\* caches (Message.__init__).
Init ==
    /\ raw_content \in Optional(BytesValues)
    /\ \E ce \in Optional({Tok(e) : e \in ContentEncodings}),
          ct \in Optional({Tok(c) : c \in ContentTypes}) :
            headers = [ce |-> ce, ct |-> ct,
                       cl |-> IF raw_content = None THEN None
                              ELSE content_length(raw_content)]
    /\ _content_cache = no_cached_decode
    /\ _text_cache = no_cached_decode
    /\ last = Call(0, <<"", FALSE, "">>, None, "__init__", FALSE, None, Return(Msg, None, 0, 0, "computed"))

GetContent(strict) == Apply("get_content", strict, None, get_content(Msg, strict))

SetContent(value) == Apply("set_content", FALSE, value, set_content(Msg, value))

GetText(strict) == Apply("get_text", strict, None, get_text(Msg, strict))

SetText(text) == Apply("set_text", FALSE, text, set_text(Msg, text))

Decode(strict) == Apply("decode", strict, None, decode(Msg, strict))

Encode(e) == Apply("encode", FALSE, Tok(e), encode(Msg, e))

Replace(pattern, repl) ==
    Apply("replace", FALSE, <<"args", pattern, repl>>, replace(Msg, pattern, repl))

\* the raw_content setter (lines 118-120)
SetRawContent(content) ==
    Apply("raw_content", FALSE, content,
          Return([Msg EXCEPT !.raw = content], None, 0, 0, "computed"))

\* headers["content-encoding"] = e, or del headers["content-encoding"]
SetContentEncoding(e) ==
    Apply("headers", FALSE, e,
          Return([Msg EXCEPT !.hdr.ce = e], None, 0, 0, "computed"))

\* headers["content-type"] = c, or del headers["content-type"]
SetContentType(c) ==
    Apply("headers", FALSE, c,
          Return([Msg EXCEPT !.hdr.ct = c], None, 0, 0, "computed"))

\* the headers setter (lines 104-106): m.headers = h replaces every header
SetHeaders(h) ==
    Apply("headers.setter", FALSE, <<"headers", h.ce, h.ct, h.cl>>,
          Return([Msg EXCEPT !.hdr = h], None, 0, 0, "computed"))

\* set_state (lines 86-87, MessageData.set_state 38-42) with a state that
\* holds content and headers: body and headers are replaced, the caches stay
SetState(content, h) ==
    Apply("set_state", FALSE, <<"state", content, h.ce, h.ct, h.cl>>,
          Return([Msg EXCEPT !.raw = content, !.hdr = h], None, 0, 0, "computed"))

\* a Headers object: the three headers the class reads or writes
Headers(ce, ct, cl) == [ce |-> ce, ct |-> ct, cl |-> cl]

\* the Headers objects a caller assigns: gzip and json with the
\* Content-Length of a one-byte body or with one that is no body's length,
\* no header at all, and a rejected content-encoding with an ASCII charset
HeadersValues ==
    {Headers(Tok("gzip"), Tok("application/json"), Text(<<49>>)),
     Headers(Tok("gzip"), Tok("application/json"), Text(<<55>>)),
     Headers(None, None, None),
     Headers(Tok("bogus"), Tok("text/plain; charset=ascii"), Text(<<49>>))}

\* the states a caller restores: an empty body marked gzip, a one-byte body
\* with an ASCII charset, and no body with no headers
StateValues ==
    {[content |-> Bytes(<<>>), headers |-> Headers(Tok("gzip"), None, Text(<<48>>))],
     [content |-> Bytes(<<49>>),
      headers |-> Headers(None, Tok("text/plain; charset=ascii"), Text(<<49>>))],
     [content |-> None, headers |-> Headers(None, None, None)]}

DoGetContent == \E strict \in BOOLEAN : GetContent(strict)
DoSetContent == \E value \in Optional(BytesValues) \cup {Text(<<49>>)} : SetContent(value)
DoGetText == \E strict \in BOOLEAN : GetText(strict)
DoSetText == \E text \in Optional(TextValues) : SetText(text)
DoDecode == \E strict \in BOOLEAN : Decode(strict)
DoEncode == \E e \in Schemes : Encode(e)
DoReplace == \E pattern \in Patterns, repl \in Replacements : Replace(pattern, repl)
DoSetRawContent == \E content \in Optional(BytesValues) : SetRawContent(content)
DoSetContentEncoding ==
    \E e \in Optional({Tok(e) : e \in ContentEncodings}) : SetContentEncoding(e)
DoSetContentType ==
    \E c \in Optional({Tok(c) : c \in ContentTypes}) : SetContentType(c)
DoSetHeaders == \E h \in HeadersValues : SetHeaders(h)
DoSetState == \E state \in StateValues : SetState(state.content, state.headers)

Next ==
    \/ DoGetContent
    \/ DoSetContent
    \/ DoGetText
    \/ DoSetText
    \/ DoDecode
    \/ DoEncode
    \/ DoReplace
    \/ DoSetRawContent
    \/ DoSetContentEncoding
    \/ DoSetContentType
    \/ DoSetHeaders
    \/ DoSetState

Spec == Init /\ [][Next]_vars

(***************************************************************************)
(* The text facade on its own, with texts the charsets of the model cannot *)
(* all encode: e-acute, the euro sign (not latin-1), U+DCE9, the           *)
(* surrogate escape that get_text(strict=False) produces for the byte      *)
(* 0xE9, and U+D800, a lone surrogate that no codec of the model encodes;  *)
(* and with a content-type value that does not parse.                      *)
(***************************************************************************)
WideCodePoints == {233, 8364, 56553, 55296}
WideTextValues == {Text(q) : q \in SeqsUpTo(WideCodePoints, MaxLen)}
WideContentTypes == ContentTypes \cup {"nonsense"}

InitText ==
    /\ raw_content \in Optional(BytesValues)
    /\ \E ce \in Optional({Tok(e) : e \in ContentEncodings}),
          ct \in Optional({Tok(c) : c \in WideContentTypes}) :
            headers = [ce |-> ce, ct |-> ct,
                       cl |-> IF raw_content = None THEN None
                              ELSE content_length(raw_content)]
    /\ _content_cache = no_cached_decode
    /\ _text_cache = no_cached_decode
    /\ last = Call(0, <<"", FALSE, "">>, None, "__init__", FALSE, None, Return(Msg, None, 0, 0, "computed"))

DoSetWideText == \E text \in WideTextValues : SetText(text)
DoSetWideContentType ==
    \E c \in Optional({Tok(c) : c \in WideContentTypes}) : SetContentType(c)

NextText ==
    \/ DoSetWideText
    \/ DoGetText
    \/ DoSetWideContentType
    \/ DoSetContentEncoding

SpecText == InitText /\ [][NextText]_vars

(***************************************************************************)
(* Properties.                                                             *)
(***************************************************************************)
\* the codec accepts the content-encoding of m for the body of m
DecodesOk(m) == ~Truthy(m.hdr.ce) \/ encoding_decode(m.raw, Val(m.hdr.ce)).ok
\* the body of m decoded under its content-encoding, computed without a cache
Decoded(m) == IF Truthy(m.hdr.ce) THEN encoding_decode(m.raw, Val(m.hdr.ce)).v ELSE m.raw
\* the codec also accepts the guessed charset for the decoded body
TextOk(m) == DecodesOk(m) /\ encoding_decode(Decoded(m), Val(_guess_encoding(m))).ok
\* the codec accepts the scheme e (for some body)
ValidScheme(e) == encoding_encode(Bytes(<<>>), Val(e)).ok

Wrote == last.op \in {"set_content", "set_text"} /\ last.exc = "" /\ last.arg # None

\* C1: after a successful set_content(b) / set_text(t) with a non-absent
\* value, the Content-Length header is the decimal string of the byte length
\* of raw_content.
C1_ContentLengthAfterWrite ==
    Wrote => /\ raw_content # None
             /\ headers.cl = Text(str(Len(Val(raw_content))))

\* a text was written under gzip: the body is longer than the text
C1_Witness ==
    /\ Wrote
    /\ last.op = "set_text"
    /\ headers.ce = Tok("gzip")
    /\ Len(Val(raw_content)) > Len(Val(last.arg))

\* C2 as stated: after set_content(b), Content-Length is len(b), whatever the
\* Content-Encoding.
C2_ContentLengthIsValueLength ==
    (Wrote /\ last.op = "set_content")
        => headers.cl = Text(str(Len(Val(last.arg))))

\* C2 amended: after set_content(b), Content-Length is the length of
\* raw_content, the encoding of b under the Content-Encoding header; it is
\* len(b) when no Content-Encoding other than identity remains after the call.
C2_ContentLengthIsEncodedLength ==
    (Wrote /\ last.op = "set_content")
        => /\ headers.cl = Text(str(Len(Val(raw_content))))
           /\ Decoded(Msg) = last.arg
           /\ headers.ce \in {None, Tok("identity")}
                => /\ raw_content = last.arg
                   /\ headers.cl = Text(str(Len(Val(last.arg))))

\* set_content under no content-encoding, on a message that went through gzip
C2_Witness ==
    /\ Wrote
    /\ last.op = "set_content"
    /\ headers.ce = None
    /\ last.ce0 = None
    /\ _content_cache.decoded = last.arg
    /\ raw_content = last.arg
    /\ last.arg # Bytes(<<>>)
    /\ last.nencode = 1

\* C3 as stated: after a completed decode, encode or replace that leaves a
\* body, Content-Length is the byte length of raw_content.
C3_ContentLengthMaintained ==
    (last.op \in {"decode", "encode", "replace"} /\ last.exc = "" /\ raw_content # None)
        => headers.cl = Text(str(Len(Val(raw_content))))

\* C4 as stated: get_text(strict=False) never raises.
C4_LenientGetTextNeverRaises ==
    (last.op = "get_text" /\ ~last.strict) => last.exc = ""

\* C5: get_content(strict=False) never raises; when the codec rejects the
\* scheme or the body it returns raw_content and the cache entry for the
\* current body and header is non-strict.
C5_LenientGetContent ==
    (last.op = "get_content" /\ ~last.strict)
        => /\ last.exc = ""
           /\ (raw_content # None /\ ~DecodesOk(Msg))
                => /\ last.ret = raw_content
                   /\ ~_content_cache.strict
                   /\ _content_cache.encoded = raw_content
                   /\ _content_cache.encoding = headers.ce
                   /\ _content_cache.decoded = raw_content

\* a lenient read of a body that is no gzip under Content-Encoding: gzip
C5_Witness ==
    /\ last.op = "get_content"
    /\ ~last.strict
    /\ raw_content # None
    /\ headers.ce = Tok("gzip")
    /\ ~DecodesOk(Msg)
    /\ last.ndecode = 1

\* C6: a strict read never returns a value served from a cache entry whose
\* strict flag is false; where the codec rejects the content-encoding (or the
\* charset, for get_text) the strict read raises, whatever was read leniently
\* before.
C6_NoLenientReuse ==
    (last.op \in {"get_content", "get_text"} /\ last.strict /\ raw_content # None)
        => /\ last.exc = "" => last.served # "lenient"
           /\ last.op = "get_content" => (last.exc = "" <=> DecodesOk(Msg))
           /\ last.op = "get_text" => (last.exc = "" <=> TextOk(Msg))

\* a strict read raised although a lenient entry for this very body and
\* header is in the cache
C6_Witness ==
    /\ last.op = "get_content"
    /\ last.strict
    /\ last.exc = "ValueError"
    /\ raw_content # None
    /\ ~_content_cache.strict
    /\ _content_cache.encoded = raw_content
    /\ _content_cache.encoding = headers.ce

\* C7 as stated: with c the content before encode(scheme), scheme valid,
\* afterwards raw_content decodes to c under scheme and get_content() is c.
C7_EncodeFromContent ==
    [][(/\ last'.op = "encode"
        /\ ValidScheme(last'.arg)
        /\ get_content(Msg, TRUE).exc = "")
            => LET c == get_content(Msg, TRUE).ret
               IN IF c = None THEN raw_content' = None
                  ELSE /\ encoding_decode(raw_content', Val(last'.arg)) = Ok(c)
                       /\ get_content(Msg', TRUE).exc = ""
                       /\ get_content(Msg', TRUE).ret = c]_vars

\* C7 amended: encode(scheme), scheme valid, does not decode the body
\* beforehand: it succeeds, sets Content-Encoding to scheme, and with r the
\* raw_content before the call, raw_content afterwards decodes to r under
\* scheme and get_content() returns r; that is the content before the call
\* only when the message carried no content-encoding other than identity.
C7_EncodeFromRaw ==
    [][(last'.op = "encode" /\ ValidScheme(last'.arg))
            => /\ last'.exc = ""
               /\ headers'.ce = last'.arg
               /\ IF raw_content = None THEN raw_content' = None
                  ELSE /\ encoding_decode(raw_content', Val(last'.arg)) = Ok(raw_content)
                       /\ get_content(Msg', TRUE).exc = ""
                       /\ get_content(Msg', TRUE).ret = raw_content
               /\ (~Truthy(headers.ce) \/ headers.ce = Tok("identity"))
                    => get_content(Msg', TRUE).ret = get_content(Msg, TRUE).ret]_vars

\* encode("gzip") of a body that was gzip already: the body is wrapped twice
C7_Witness ==
    /\ last.op = "encode"
    /\ last.arg = Tok("gzip")
    /\ last.exc = ""
    /\ raw_content # None
    /\ encoding_decode(raw_content, "gzip").ok
    /\ encoding_decode(encoding_decode(raw_content, "gzip").v, "gzip").ok
    /\ last.ce0 = Tok("gzip")

\* C8 as stated: encode(scheme) with a scheme the codec rejects raises
\* ValueError and leaves the message without a Content-Encoding header.
C8_EncodeInvalidRaises ==
    (last.op = "encode" /\ ~ValidScheme(last.arg))
        => /\ last.exc = "ValueError"
           /\ headers.ce = None

\* C9: a decode(strict=True) that succeeds sets raw_content to the content
\* and removes Content-Encoding; a second decode() changes neither
\* raw_content nor the headers, and get_content() is the same after both.
C9_DecodeIdempotent ==
    [][/\ (last'.op = "decode" /\ last'.strict /\ last'.exc = "")
            => /\ raw_content' = get_content(Msg, TRUE).ret
               /\ headers'.ce = None
               /\ LET second == decode(Msg', TRUE)
                  IN /\ second.exc = ""
                     /\ second.m.raw = raw_content'
                     /\ second.m.hdr = headers'
                     /\ get_content(second.m, TRUE).ret = get_content(Msg', TRUE).ret
                     /\ get_content(second.m, TRUE).exc = ""
       /\ (/\ last.op = "decode" /\ last.strict /\ last.exc = ""
           /\ last'.op = "decode" /\ last'.strict)
            => /\ last'.exc = ""
               /\ raw_content' = raw_content
               /\ headers' = headers
               /\ get_content(Msg', TRUE).ret = get_content(Msg, TRUE).ret]_vars

\* a second decode() right after a first one that succeeded
C9_Witness ==
    /\ last.op = "decode"
    /\ last.strict
    /\ last.exc = ""
    /\ last.prev = <<"decode", TRUE, "">>
    /\ last.n = 2
    /\ headers.ce = None
    /\ raw_content # None

StrictGetContentTwice ==
    /\ last.op = "get_content" /\ last.strict
    /\ last'.op = "get_content" /\ last'.strict

\* C10 as stated: two get_content(strict=True) in a row call the codec decode
\* at most once in total and return the same value.
C10_DecodeAtMostOnce ==
    [][StrictGetContentTwice
            => /\ last.ndecode + last'.ndecode <= 1
               /\ last'.ret = last.ret]_vars

\* C10 amended: when the first of two get_content(strict=True) in a row
\* returns, the second is served from the cache without a codec call and
\* returns the same value; when the first raises, nothing is cached and the
\* second calls the codec again and raises too.
C10_DecodeOnceWhenReturned ==
    [][StrictGetContentTwice
            => IF last.exc = ""
               THEN /\ last'.exc = ""
                    /\ last'.ndecode = 0
                    /\ last.ndecode <= 1
                    /\ last'.ret = last.ret
                    /\ raw_content # None => last'.served = "strict"
               ELSE /\ last'.exc = "ValueError"
                    /\ last.ndecode = 1
                    /\ last'.ndecode = 1]_vars

\* a strict read of a gzip body served from the cache
C10_Witness ==
    /\ last.op = "get_content"
    /\ last.strict
    /\ last.exc = ""
    /\ last.served = "strict"
    /\ last.ndecode = 0
    /\ last.prev = <<"get_content", TRUE, "">>
    /\ last.n = 2
    /\ headers.ce = Tok("gzip")
    /\ last.ret # raw_content

\* C11: with raw_content absent, get_content and get_text (strict or not)
\* return None; set_content(None) and set_text(None) make raw_content absent
\* and leave every header as it was.
C11_AbsentBody ==
    [][/\ (last'.op \in {"get_content", "get_text"} /\ raw_content = None)
            => /\ last'.exc = ""
               /\ last'.ret = None
       /\ (last'.op \in {"set_content", "set_text"} /\ last'.arg = None)
            => /\ last'.exc = ""
               /\ raw_content' = None
               /\ headers' = headers]_vars

\* set_text(None) on a gzip message: the body is gone, Content-Encoding and
\* Content-Length are still there
C11_Witness ==
    /\ last.op = "set_text"
    /\ last.arg = None
    /\ raw_content = None
    /\ headers.ce = Tok("gzip")
    /\ headers.cl # None
    /\ get_text(Msg, TRUE).ret = None
    /\ get_content(Msg, FALSE).ret = None

\* C12: set_content(value) with a value that is neither None nor bytes raises
\* TypeError and changes nothing: not raw_content, not a header, not a cache.
C12_TypeError ==
    [][(last'.op = "set_content" /\ Ty(last'.arg) \notin {"none", "bytes"})
            => /\ last'.exc = "TypeError"
               /\ raw_content' = raw_content
               /\ headers' = headers
               /\ _content_cache' = _content_cache
               /\ _text_cache' = _text_cache]_vars

\* a str was refused on a message with a rejected Content-Encoding and a
\* filled content cache
C12_Witness ==
    /\ last.op = "set_content"
    /\ Ty(last.arg) = "text"
    /\ last.exc = "TypeError"
    /\ headers.ce = Tok("bogus")
    /\ _content_cache # no_cached_decode

\* the codec rejects the content-encoding ce for the value b
Rejected(ce, b) == Truthy(ce) /\ ~encoding_encode(b, Val(ce)).ok

\* C13: set_content(b) never raises for bytes b; when the codec rejects the
\* current Content-Encoding, the header is removed, raw_content is b and the
\* content cache holds b under the absent encoding with strict = TRUE.
C13_SetContentRecovers ==
    [][(last'.op = "set_content" /\ Ty(last'.arg) = "bytes")
            => /\ last'.exc = ""
               /\ Rejected(headers.ce, last'.arg)
                    => /\ headers'.ce = None
                       /\ raw_content' = last'.arg
                       /\ _content_cache' = CachedDecode(last'.arg, None, TRUE, last'.arg)]_vars

\* set_content over a rejected Content-Encoding for which a lenient cache
\* entry of the same bytes existed
C13_Witness ==
    /\ last.op = "set_content"
    /\ last.ce0 = Tok("bogus")
    /\ last.prev = <<"get_content", FALSE, "">>
    /\ last.exc = ""
    /\ headers.ce = None
    /\ raw_content = last.arg
    /\ last.arg # Bytes(<<>>)

\* the charset set_text guesses for m cannot encode the text t
CannotEncode(m, t) == ~encoding_encode(t, Val(_guess_encoding(m))).ok

\* what the fallback of set_text(t) leaves: charset=utf-8 in Content-Type
\* (text/plain when the old value did not parse) and a strict get_text()
\* that returns t
FellBackToUtf8(before, after, r, t) ==
    /\ r.exc = ""
    /\ _get_content_type_charset(after) = Tok("utf-8")
    /\ ~parse_content_type(content_type_or_empty(before)).ok
         => after.hdr.ct = Tok("text/plain; charset=utf-8")
    /\ get_text(after, TRUE).exc = ""
    /\ get_text(after, TRUE).ret = t

\* C14 as stated: for every text t the guessed charset cannot encode,
\* set_text(t) leaves charset=utf-8 in Content-Type and a following
\* get_text() returns t.
C14_FallbackRoundTrip ==
    [][(last'.op = "set_text" /\ last'.arg # None /\ CannotEncode(Msg, last'.arg))
            => FellBackToUtf8(Msg, Msg', last', last'.arg)]_vars

\* substitutions of pattern by repl in a header value (None: header absent)
HeaderSubn(pattern, repl, value) ==
    IF value = None THEN [s |-> None, n |-> 0]
    ELSE LET r == subn(pattern, repl, Val(value)) IN [s |-> Text(r.s), n |-> r.n]

\* C15: a replace(pattern, repl) that returns gives the number of
\* substitutions in the decoded body plus the number in the headers.  A
\* non-empty decoded body is substituted and written back under the same
\* Content-Encoding; an absent or empty body leaves raw_content as it was and
\* counts 0.
C15_ReplaceCounts ==
    [][(last'.op = "replace" /\ last'.exc = "")
            => LET c == get_content(Msg, TRUE).ret
                   pattern == last'.arg[2]
                   repl == last'.arg[3]
               IN IF NonEmpty(c)
                  THEN LET b == subn(pattern, repl, Val(c))
                           h == HeaderSubn(pattern, repl, content_length(raw_content'))
                       IN /\ headers'.ce = headers.ce
                          /\ DecodesOk(Msg')
                          /\ Decoded(Msg') = Bytes(b.s)
                          /\ headers'.cl = h.s
                          /\ last'.ret = PyInt(b.n + h.n)
                  ELSE LET h == HeaderSubn(pattern, repl, headers.cl)
                       IN /\ raw_content' = raw_content
                          /\ headers'.ce = headers.ce
                          /\ headers'.cl = h.s
                          /\ last'.ret = PyInt(h.n)]_vars

\* one substitution in a gzip body and one in the Content-Length it was
\* given afterwards
C15_Witness ==
    /\ last.op = "replace"
    /\ last.exc = ""
    /\ last.ret = PyInt(2)
    /\ headers.ce = Tok("gzip")
    /\ raw_content = Bytes(<<31>>)
    /\ headers.cl = Text(<<>>)

\* the message m with both caches empty
WithEmptyCaches(m) == [m EXCEPT !.cc = no_cached_decode, !.tc = no_cached_decode]

\* C16: whatever calls, raw_content assignments and header changes came
\* before, a get_content(strict=True) that returns gives the codec's decode
\* of the current raw_content under the current Content-Encoding (raw_content
\* itself without the header): what a message with empty caches computes.
C16_CacheCoherence ==
    (last.op = "get_content" /\ last.strict /\ last.exc = "")
        => /\ raw_content # None => (DecodesOk(Msg) /\ last.ret = Decoded(Msg))
           /\ get_content(WithEmptyCaches(Msg), TRUE).exc = ""
           /\ last.ret = get_content(WithEmptyCaches(Msg), TRUE).ret

\* a strict read that had to recompute after raw_content was assigned
\* directly, on the third call on a gzip message
C16_Witness ==
    /\ last.op = "get_content"
    /\ last.strict
    /\ last.exc = ""
    /\ last.n = 3
    /\ last.prev[1] = "raw_content"
    /\ headers.ce = Tok("gzip")
    /\ last.ndecode = 1
    /\ raw_content = Bytes(<<31>>)
    /\ last.ret = Bytes(<<>>)

\* C17: set_content(b) followed at once by get_content(strict=True) returns b
\* and does not raise, also when the Content-Encoding header was one the
\* codec rejects before the write.
C17_WriteReadRoundTrip ==
    [][/\ (last'.op = "set_content" /\ Ty(last'.arg) = "bytes")
            => /\ get_content(Msg', TRUE).exc = ""
               /\ get_content(Msg', TRUE).ret = last'.arg
       /\ (/\ last.op = "set_content" /\ Ty(last.arg) = "bytes"
           /\ last'.op = "get_content" /\ last'.strict)
            => /\ last'.exc = ""
               /\ last'.ret = last.arg]_vars

\* a write that found Content-Encoding: bogus, and the strict read of the
\* state it left
C17_Witness ==
    /\ last.op = "set_content"
    /\ last.ce0 = Tok("bogus")
    /\ last.arg = Bytes(<<31>>)
    /\ get_content(Msg, TRUE).exc = ""
    /\ get_content(Msg, TRUE).ret = last.arg

\* C18: get_content and get_text, returning or raising, leave raw_content
\* and every header alone; get_content never touches the text cache, and a
\* read of an absent raw_content touches neither cache.
C18_ReadsArePure ==
    [][(last'.op \in {"get_content", "get_text"})
            => /\ raw_content' = raw_content
               /\ headers' = headers
               /\ last'.op = "get_content" => _text_cache' = _text_cache
               /\ raw_content = None
                    => /\ _content_cache' = _content_cache
                       /\ _text_cache' = _text_cache]_vars

\* a lenient get_text over a rejected Content-Encoding and a rejected
\* charset: both caches were written, the headers are still there
C18_Witness ==
    /\ last.op = "get_text"
    /\ ~last.strict
    /\ last.exc = ""
    /\ headers.ce = Tok("bogus")
    /\ headers.ct = Tok("text/plain; charset=bogus")
    /\ _content_cache # no_cached_decode
    /\ _text_cache # no_cached_decode

\* the Content-Encoding of m names a scheme the codec rejects
SchemeRejected(m) == Truthy(m.hdr.ce) /\ ~ValidScheme(m.hdr.ce)

\* what decode does when the body cannot be decoded: strict raises and
\* keeps body and header, lenient keeps the body and removes the header
DecodeOfUndecodable(strict, r) ==
    IF strict
    THEN /\ r.exc = "ValueError"
         /\ raw_content' = raw_content
         /\ headers'.ce = headers.ce
    ELSE /\ r.exc = ""
         /\ raw_content' = raw_content
         /\ headers'.ce = None

\* C19 as stated: on every message whose Content-Encoding names a scheme the
\* codec rejects, or whose body is corrupt, decode(strict=True) raises and
\* keeps raw_content and the header, decode(strict=False) does not raise,
\* keeps raw_content and removes the header.
C19_DecodeOfInvalid ==
    [][(last'.op = "decode" /\ (SchemeRejected(Msg) \/ (raw_content # None /\ ~DecodesOk(Msg))))
            => DecodeOfUndecodable(last'.strict, last')]_vars

\* C19, amended: the same on every message with a body; on a message
\* without a body decode, strict or not, does not raise and removes the
\* header.
C19_DecodeOfInvalidBody ==
    [][/\ (last'.op = "decode" /\ raw_content # None /\ ~DecodesOk(Msg))
            => DecodeOfUndecodable(last'.strict, last')
       /\ (last'.op = "decode" /\ raw_content = None)
            => /\ last'.exc = ""
               /\ raw_content' = None
               /\ headers'.ce = None]_vars

\* decode(strict=True) raised on a body under a rejected scheme, the
\* decode(strict=False) after it kept the body and removed the header
C19_Witness ==
    /\ last.op = "decode"
    /\ ~last.strict
    /\ last.exc = ""
    /\ last.prev = <<"decode", TRUE, "ValueError">>
    /\ last.ce0 = Tok("bogus")
    /\ headers.ce = None
    /\ raw_content = Bytes(<<49>>)

\* C20 as stated: after every set_text(t) with t not None, the fallback to
\* UTF-8 included, the text cache is valid for the state reached: its encoding
\* is what _guess_encoding() returns now and its encoded bytes are the current
\* content, so a set_text(t) or get_text(strict=True) made next encodes and
\* decodes nothing.
C20_TextCacheValidAfterWrite ==
    (last.op = "set_text" /\ last.exc = "" /\ last.arg # None)
        => /\ _text_cache.encoding = _guess_encoding(Msg)
           /\ _text_cache.encoded = get_content(Msg, TRUE).ret
           /\ set_text(Msg, last.arg).nencode = 0
           /\ get_text(Msg, TRUE).ndecode = 0

====
